---- MODULE Spec2Model ----
(***************************************************************************)
(* Model of the HVCA client's login / token cache (client_login.go).       *)
(*                                                                         *)
(* Goroutines call loginIfTokenHasExpired ("EnsureFresh"), login           *)
(* ("ForceLogin") and tokenRead ("CurrentToken") on one shared Client.     *)
(* A step of the model is one operation on shared state: a lock            *)
(* operation, the read or write made under a lock together with the        *)
(* deferred unlock that follows it, or the arrival of the login response.  *)
(* A function's return is part of its last shared operation.               *)
(*                                                                         *)
(* Time is counted in minutes.  time.Time{} is ZeroTime; the wall clock    *)
(* starts at StartTime, more than tokenLifetime after ZeroTime, as any     *)
(* real clock is, so that time.Since(time.Time{}) exceeds tokenLifetime.   *)
(***************************************************************************)
EXTENDS Integers, FiniteSets

\* ---------------------------------------------------------------- bounds
NumProcs == 2
MaxTime == 20
MaxLatency == 2

\* ------------------------------------------------------------- constants
tokenLifetime == 9
\* the token validity the API documentation states, in minutes
serverValidity == 10
ZeroTime == 0
StartTime == ZeroTime + tokenLifetime + 1

Procs == 1..NumProcs
NoProc == 0

\* What a successful /login response may carry in access_token: the JSON
\* decoder leaves AccessToken "" when the body has no such field.
AccessTokens == {"", "abc", "xyz"}
\* makeRequest's outcome as login branches on it: err != nil, or err == nil
ErrResp == "ERR"
OkResp == "OK"
NoResp == "none"

VARIABLES
    token,      \* c.token
    lastLogin,  \* c.lastLogin
    now,        \* the wall clock read by time.Now / time.Since
    loginMtx,   \* holder of c.loginMtx, or NoProc
    tokenMtxW,  \* holder of c.tokenMtx in exclusive mode, or NoProc
    tokenMtxR,  \* holders of c.tokenMtx in shared mode
    pc,         \* position of each goroutine
    op,         \* the call each goroutine is in (or was last in)
    resp,       \* outcome of the goroutine's makeRequest: OkResp, ErrResp, NoResp
    ret,        \* value returned by the goroutine's last call
    logins,     \* makeRequest invocations made by the goroutine's current call
    inWindow,   \* history: the cache was fresh at every moment of the call so far
    sawFail,    \* history: while the goroutine has been queuing for loginMtx,
                \* the login of a loginIfTokenHasExpired call failed
    timed,      \* whether this behaviour keeps the two latency histories
    lat,        \* history: minutes since the server answered the goroutine's
                \* login request, while the answer is not yet stored
    lag         \* history: lat of the login whose token is stored

vars == <<token, lastLogin, now, loginMtx, tokenMtxW, tokenMtxR,
          pc, op, resp, ret, logins, inWindow, sawFail, timed, lat, lag>>

\* ------------------------------------------------------------ pure parts

\* Where the clock stops: at MaxTime, or, in a behaviour that keeps the
\* latency histories, once a token stored with the largest latency at
\* StartTime has reached the age tokenLifetime.
TimeLimit ==
    IF timed THEN StartTime + MaxLatency + tokenLifetime ELSE MaxTime

\* time.Since(t)
Since(t) == now - t

tokenHasExpiredGe == Since(lastLogin) >= tokenLifetime

tokenHasExpiredLate == Since(lastLogin) > tokenLifetime + 1

tokenHasExpiredUnlessZero ==
    lastLogin # ZeroTime /\ Since(lastLogin) > tokenLifetime

\* tokenHasExpired, evaluated under the shared token lock
tokenHasExpired == Since(lastLogin) > tokenLifetime

\* The cache states of the design: Fresh, and its complement Empty or Stale.
Fresh == lastLogin # ZeroTime /\ now - lastLogin <= tokenLifetime
Empty == token = "" /\ lastLogin = ZeroTime

\* the step in which goroutine p's failed login clears the cache and returns
LoginFails(p) == pc[p] = "storew" /\ resp[p] = ErrResp /\ pc'[p] # "storew"

\* History bookkeeping, conjoined to every action.  inWindow is kept for
\* the goroutines inside loginIfTokenHasExpired, and after its return until
\* the goroutine's next call; sawFail from queuing for loginMtx until the
\* re-check.  lat and lag are kept only in behaviours that start with timed
\* set: the server issues the token when it answers the request
\* (LoginResponse), lat counts the minutes from then until the answer is
\* stored, and lag keeps that count for the token in the cache.
TrackHistory ==
    /\ inWindow' = [q \in Procs |->
          IF op'[q] # "EnsureFresh" THEN FALSE
          ELSE IF pc[q] = "idle"
          THEN (IF pc'[q] = "idle" THEN inWindow[q] ELSE Fresh')
          ELSE inWindow[q] /\ Fresh']
    /\ sawFail' = [q \in Procs |->
          IF pc'[q] \notin {"eflock", "ef2", "ef2r"} THEN FALSE
          ELSE IF /\ pc[q] = "eflock"
                  /\ \E h \in Procs : op[h] = "EnsureFresh" /\ LoginFails(h)
          THEN TRUE
          ELSE sawFail[q]]
    /\ timed' = timed
    /\ lat' = [q \in Procs |->
          IF ~timed \/ pc[q] \notin {"store", "storew"}
                    \/ pc'[q] \notin {"store", "storew"}
          THEN 0
          ELSE lat[q] + (now' - now)]
    /\ lag' = IF timed /\ \E q \in Procs : pc[q] = "storew" /\ pc'[q] # "storew"
              THEN LET q == CHOOSE r \in Procs :
                                pc[r] = "storew" /\ pc'[r] # "storew"
                   IN IF resp[q] = OkResp THEN lat[q] ELSE 0
              ELSE lag

\* ------------------------------------------------------------------ Init
Init ==
    /\ token = ""
    /\ lastLogin = ZeroTime
    /\ now = StartTime
    /\ loginMtx = NoProc
    /\ tokenMtxW = NoProc
    /\ tokenMtxR = {}
    /\ pc = [p \in Procs |-> "idle"]
    /\ op = [p \in Procs |-> "none"]
    /\ resp = [p \in Procs |-> NoResp]
    /\ ret = [p \in Procs |-> "none"]
    /\ logins = [p \in Procs |-> 0]
    /\ inWindow = [p \in Procs |-> FALSE]
    /\ sawFail = [p \in Procs |-> FALSE]
    /\ timed = FALSE
    /\ lat = [p \in Procs |-> 0]
    /\ lag = 0

\* ------------------------------------------------------------ lock parts

\* c.tokenMtx.RLock()
tokenMtxRLock(p) ==
    /\ tokenMtxW = NoProc
    /\ tokenMtxR' = tokenMtxR \cup {p}
    /\ UNCHANGED tokenMtxW

tokenMtxRUnlockMissing(p) ==
    /\ UNCHANGED <<tokenMtxR, tokenMtxW>>

\* c.tokenMtx.RUnlock()
tokenMtxRUnlock(p) ==
    /\ tokenMtxR' = tokenMtxR \ {p}
    /\ UNCHANGED tokenMtxW

tokenMtxLockOverReaders(p) ==
    /\ tokenMtxW = NoProc
    /\ tokenMtxW' = p
    /\ UNCHANGED tokenMtxR

\* c.tokenMtx.Lock()
tokenMtxLock(p) ==
    /\ tokenMtxW = NoProc
    /\ tokenMtxR = {}
    /\ tokenMtxW' = p
    /\ UNCHANGED tokenMtxR

\* c.tokenMtx.Unlock()
tokenMtxUnlock(p) ==
    /\ tokenMtxW' = NoProc
    /\ UNCHANGED tokenMtxR

loginMtxLockNoWait(p) ==
    /\ loginMtx' = p

\* c.loginMtx.Lock()
loginMtxLock(p) ==
    /\ loginMtx = NoProc
    /\ loginMtx' = p

loginMtxKeep(p) ==
    /\ UNCHANGED loginMtx

\* defer c.loginMtx.Unlock()
loginMtxUnlock(p) ==
    /\ loginMtx' = NoProc

\* ------------------------------------------------------------ the calls

\* a goroutine calls loginIfTokenHasExpired
CallEnsureFresh(p) ==
    /\ pc[p] = "idle"
    /\ pc' = [pc EXCEPT ![p] = "ef1"]
    /\ op' = [op EXCEPT ![p] = "EnsureFresh"]
    /\ UNCHANGED resp
    /\ ret' = [ret EXCEPT ![p] = "none"]
    /\ logins' = [logins EXCEPT ![p] = 0]
    /\ UNCHANGED <<token, lastLogin, now, loginMtx, tokenMtxW, tokenMtxR>>
    /\ TrackHistory

\* c.makeRequest(ctx, c.loginRequest, &r) is sent
makeRequest(p) ==
    /\ pc' = [pc EXCEPT ![p] = "inflight"]
    /\ logins' = [logins EXCEPT ![p] = @ + 1]

\* a goroutine calls login directly
CallForceLogin(p) ==
    /\ pc[p] = "idle"
    /\ op' = [op EXCEPT ![p] = "ForceLogin"]
    /\ UNCHANGED resp
    /\ ret' = [ret EXCEPT ![p] = "none"]
    /\ pc' = [pc EXCEPT ![p] = "inflight"]
    /\ logins' = [logins EXCEPT ![p] = 1]
    /\ UNCHANGED <<token, lastLogin, now, loginMtx, tokenMtxW, tokenMtxR>>
    /\ TrackHistory

\* a goroutine calls tokenRead
CallCurrentToken(p) ==
    /\ pc[p] = "idle"
    /\ pc' = [pc EXCEPT ![p] = "rd"]
    /\ op' = [op EXCEPT ![p] = "CurrentToken"]
    /\ UNCHANGED resp
    /\ ret' = [ret EXCEPT ![p] = "none"]
    /\ logins' = [logins EXCEPT ![p] = 0]
    /\ UNCHANGED <<token, lastLogin, now, loginMtx, tokenMtxW, tokenMtxR>>
    /\ TrackHistory

\* ------------------------------------------------- token field accesses

tokenResetKeepsTime ==
    /\ token' = ""
    /\ UNCHANGED lastLogin

tokenResetStampsNow ==
    /\ token' = ""
    /\ lastLogin' = now

\* tokenReset: the two assignments made under the exclusive token lock
tokenReset ==
    /\ token' = ""
    /\ lastLogin' = ZeroTime

tokenSetKeepsTime(t) ==
    /\ token' = t
    /\ UNCHANGED lastLogin

\* tokenSet: the two assignments made under the exclusive token lock
tokenSet(t) ==
    /\ token' = t
    /\ lastLogin' = now

\* ------------------------------------------- loginIfTokenHasExpired steps

\* tokenHasExpired takes the shared token lock (first or second check)
TokenHasExpiredRLock(p) ==
    /\ pc[p] \in {"ef1", "ef2"}
    /\ tokenMtxRLock(p)
    /\ pc' = [pc EXCEPT ![p] = IF pc[p] = "ef1" THEN "ef1r" ELSE "ef2r"]
    /\ UNCHANGED <<token, lastLogin, now, loginMtx, op, resp, ret, logins>>
    /\ TrackHistory

\* first check: "if !c.tokenHasExpired() { return nil }"
FastPathCheck(p) ==
    /\ pc[p] = "ef1r"
    /\ tokenMtxRUnlock(p)
    /\ IF tokenHasExpired
       THEN /\ pc' = [pc EXCEPT ![p] = "eflock"]
            /\ UNCHANGED ret
       ELSE /\ pc' = [pc EXCEPT ![p] = "idle"]
            /\ ret' = [ret EXCEPT ![p] = "nil"]
    /\ UNCHANGED <<token, lastLogin, now, loginMtx, op, resp, logins>>
    /\ TrackHistory

\* c.loginMtx.Lock()
LoginMtxAcquire(p) ==
    /\ pc[p] = "eflock"
    /\ loginMtxLock(p)
    /\ pc' = [pc EXCEPT ![p] = "ef2"]
    /\ UNCHANGED <<token, lastLogin, now, tokenMtxW, tokenMtxR, op, resp, ret, logins>>
    /\ TrackHistory

ReCheckSkipped(p) ==
    /\ pc[p] = "ef2r"
    /\ tokenMtxRUnlock(p)
    /\ makeRequest(p)
    /\ UNCHANGED <<token, lastLogin, now, loginMtx, op, resp, ret>>
    /\ TrackHistory

\* second check, under loginMtx: return nil, or go on to c.login(ctx)
ReCheck(p) ==
    /\ pc[p] = "ef2r"
    /\ tokenMtxRUnlock(p)
    /\ IF tokenHasExpired
       THEN makeRequest(p)
       ELSE /\ pc' = [pc EXCEPT ![p] = "efret"]
            /\ UNCHANGED logins
    /\ UNCHANGED <<token, lastLogin, now, loginMtx, op, resp, ret>>
    /\ TrackHistory

\* ----------------------------------------------------------- login steps

\* makeRequest returns: an error, or a decoded loginResponse
LoginResponse(p) ==
    /\ pc[p] = "inflight"
    /\ \E r \in {OkResp, ErrResp} :
           resp' = [resp EXCEPT ![p] = r]
    /\ pc' = [pc EXCEPT ![p] = "store"]
    /\ UNCHANGED <<token, lastLogin, now, loginMtx, tokenMtxW, tokenMtxR, op, ret, logins>>
    /\ TrackHistory

\* tokenReset / tokenSet take the exclusive token lock
TokenWriteLock(p) ==
    /\ pc[p] = "store"
    /\ tokenMtxLock(p)
    /\ pc' = [pc EXCEPT ![p] = "storew"]
    /\ UNCHANGED <<token, lastLogin, now, loginMtx, op, resp, ret, logins>>
    /\ TrackHistory

loginResultSwallowed(p) == "nil"

\* the value login returns
loginResult(p) == IF resp[p] = ErrResp THEN "err" ELSE "nil"

\* tokenReset / tokenSet write and unlock; login returns.  A direct login
\* call returns to its caller here; inside loginIfTokenHasExpired the
\* deferred loginMtx.Unlock is still to run.  r.AccessToken is local to
\* login until tokenSet stores it, so its value is drawn here, where it
\* first becomes visible.
TokenWrite(p) ==
    /\ pc[p] = "storew"
    /\ IF resp[p] = ErrResp
       THEN tokenReset
       ELSE \E t \in AccessTokens : tokenSet(t)
    /\ tokenMtxUnlock(p)
    /\ IF op[p] = "ForceLogin"
       THEN /\ pc' = [pc EXCEPT ![p] = "idle"]
            /\ ret' = [ret EXCEPT ![p] = loginResult(p)]
            /\ resp' = [resp EXCEPT ![p] = NoResp]
       ELSE /\ pc' = [pc EXCEPT ![p] = "efret"]
            /\ UNCHANGED <<ret, resp>>
    /\ UNCHANGED <<now, loginMtx, op, logins>>
    /\ TrackHistory

\* deferred c.loginMtx.Unlock(), and loginIfTokenHasExpired returns
EnsureFreshReturn(p) ==
    /\ pc[p] = "efret"
    /\ loginMtxUnlock(p)
    /\ pc' = [pc EXCEPT ![p] = "idle"]
    /\ ret' = [ret EXCEPT ![p] = loginResult(p)]
    /\ resp' = [resp EXCEPT ![p] = NoResp]
    /\ UNCHANGED <<token, lastLogin, now, tokenMtxW, tokenMtxR, op, logins>>
    /\ TrackHistory

\* ------------------------------------------------------- tokenRead steps

TokenReadRLock(p) ==
    /\ pc[p] = "rd"
    /\ tokenMtxRLock(p)
    /\ pc' = [pc EXCEPT ![p] = "rdr"]
    /\ UNCHANGED <<token, lastLogin, now, loginMtx, op, resp, ret, logins>>
    /\ TrackHistory

TokenReadFreshOnly(p) ==
    /\ pc[p] = "rdr"
    /\ tokenMtxRUnlock(p)
    /\ pc' = [pc EXCEPT ![p] = "idle"]
    /\ ret' = [ret EXCEPT ![p] = IF tokenHasExpired THEN "" ELSE token]
    /\ UNCHANGED <<token, lastLogin, now, loginMtx, op, resp, logins>>
    /\ TrackHistory

TokenRead(p) ==
    /\ pc[p] = "rdr"
    /\ tokenMtxRUnlock(p)
    /\ pc' = [pc EXCEPT ![p] = "idle"]
    /\ ret' = [ret EXCEPT ![p] = token]
    /\ UNCHANGED <<token, lastLogin, now, loginMtx, op, resp, logins>>
    /\ TrackHistory

\* ------------------------------------------------------------- the clock

\* one minute passes
Tick ==
    /\ now < TimeLimit
    /\ timed => \A q \in Procs : lat[q] < MaxLatency
    /\ now' = now + 1
    /\ UNCHANGED <<token, lastLogin, loginMtx, tokenMtxW, tokenMtxR,
                   pc, op, resp, ret, logins>>
    /\ TrackHistory

\* --------------------------------------------------------- specification

Next ==
    \/ \E p \in Procs : CallEnsureFresh(p)
    \/ \E p \in Procs : CallForceLogin(p)
    \/ \E p \in Procs : CallCurrentToken(p)
    \/ \E p \in Procs : TokenHasExpiredRLock(p)
    \/ \E p \in Procs : FastPathCheck(p)
    \/ \E p \in Procs : LoginMtxAcquire(p)
    \/ \E p \in Procs : ReCheck(p)
    \/ \E p \in Procs : LoginResponse(p)
    \/ \E p \in Procs : TokenWriteLock(p)
    \/ \E p \in Procs : TokenWrite(p)
    \/ \E p \in Procs : EnsureFreshReturn(p)
    \/ \E p \in Procs : TokenReadRLock(p)
    \/ \E p \in Procs : TokenRead(p)
    \/ Tick

Spec == Init /\ [][Next]_vars

\* The program at start-up, in a behaviour that keeps the latency
\* histories.
InitLatency ==
    /\ token = ""
    /\ lastLogin = ZeroTime
    /\ now = StartTime
    /\ loginMtx = NoProc
    /\ tokenMtxW = NoProc
    /\ tokenMtxR = {}
    /\ pc = [p \in Procs |-> "idle"]
    /\ op = [p \in Procs |-> "none"]
    /\ resp = [p \in Procs |-> NoResp]
    /\ ret = [p \in Procs |-> "none"]
    /\ logins = [p \in Procs |-> 0]
    /\ inWindow = [p \in Procs |-> FALSE]
    /\ sawFail = [p \in Procs |-> FALSE]
    /\ timed = TRUE
    /\ lat = [p \in Procs |-> 0]
    /\ lag = 0

\* loginIfTokenHasExpired calls made again and again, and the clock
NextLatency ==
    \/ \E p \in Procs : CallEnsureFresh(p)
    \/ \E p \in Procs : TokenHasExpiredRLock(p)
    \/ \E p \in Procs : FastPathCheck(p)
    \/ \E p \in Procs : LoginMtxAcquire(p)
    \/ \E p \in Procs : ReCheck(p)
    \/ \E p \in Procs : LoginResponse(p)
    \/ \E p \in Procs : TokenWriteLock(p)
    \/ \E p \in Procs : TokenWrite(p)
    \/ \E p \in Procs : EnsureFreshReturn(p)
    \/ Tick

SpecLatency == InitLatency /\ [][NextLatency]_vars

TypeOK ==
    /\ token \in AccessTokens
    /\ lastLogin \in {ZeroTime} \cup (StartTime..TimeLimit)
    /\ now \in StartTime..TimeLimit
    /\ loginMtx \in Procs \cup {NoProc}
    /\ tokenMtxW \in Procs \cup {NoProc}
    /\ tokenMtxR \subseteq Procs
    /\ logins \in [Procs -> 0..1]
    /\ inWindow \in [Procs -> BOOLEAN]
    /\ sawFail \in [Procs -> BOOLEAN]
    /\ timed \in BOOLEAN
    /\ lat \in [Procs -> 0..MaxLatency]
    /\ lag \in 0..MaxLatency

\* The steps of goroutine p inside a call
Step(p) ==
    \/ TokenHasExpiredRLock(p)
    \/ FastPathCheck(p)
    \/ LoginMtxAcquire(p)
    \/ ReCheck(p)
    \/ LoginResponse(p)
    \/ TokenWriteLock(p)
    \/ TokenWrite(p)
    \/ EnsureFreshReturn(p)
    \/ TokenReadRLock(p)
    \/ TokenRead(p)

\* A burst: every goroutine has just called loginIfTokenHasExpired on a
\* cache that is empty (never logged in) or stale (logged in at StartTime,
\* more than tokenLifetime ago), and makes that one call.
InitBurst ==
    /\ \/ token = "" /\ lastLogin = ZeroTime /\ now = StartTime
       \/ token = "abc" /\ lastLogin = StartTime
                        /\ now = StartTime + tokenLifetime + 1
    /\ loginMtx = NoProc
    /\ tokenMtxW = NoProc
    /\ tokenMtxR = {}
    /\ pc = [p \in Procs |-> "ef1"]
    /\ op = [p \in Procs |-> "EnsureFresh"]
    /\ resp = [p \in Procs |-> NoResp]
    /\ ret = [p \in Procs |-> "none"]
    /\ logins = [p \in Procs |-> 0]
    /\ inWindow = [p \in Procs |-> FALSE]
    /\ sawFail = [p \in Procs |-> FALSE]
    /\ timed = FALSE
    /\ lat = [p \in Procs |-> 0]
    /\ lag = 0

NextBurst ==
    \/ \E p \in Procs : TokenHasExpiredRLock(p)
    \/ \E p \in Procs : FastPathCheck(p)
    \/ \E p \in Procs : LoginMtxAcquire(p)
    \/ \E p \in Procs : ReCheck(p)
    \/ \E p \in Procs : LoginResponse(p)
    \/ \E p \in Procs : TokenWriteLock(p)
    \/ \E p \in Procs : TokenWrite(p)
    \/ \E p \in Procs : EnsureFreshReturn(p)
    \/ Tick

\* The Go scheduler lets every runnable goroutine run, every login
\* round-trip ends (makeRequest returns), and a goroutine blocked in Lock
\* gets the mutex once it stays free.  Nothing forces the clock on.
SpecBurst ==
    /\ InitBurst
    /\ [][NextBurst]_vars
    /\ \A p \in Procs : WF_vars(Step(p))

\* =================================================================
\* Properties
\* =================================================================

Outstanding(p) == pc[p] # "idle"
Returned(p) == pc[p] = "idle" /\ op[p] # "none"
LoginInFlight(p) == pc[p] = "inflight"
\* from the request being sent until its outcome has been stored or cleared
InLogin(p) == pc[p] \in {"inflight", "store", "storew"}

RECURSIVE SumLogins(_)
SumLogins(S) ==
    IF S = {} THEN 0
    ELSE LET p == CHOOSE q \in S : TRUE
         IN logins[p] + SumLogins(S \ {p})

\* C1 (as amended): in a burst of N concurrent loginIfTokenHasExpired calls
\* on a stale or empty cache, makeRequest is invoked at most once while all
\* N calls are outstanding; a call invokes it only at a moment when the
\* cache is not fresh, so once that login has succeeded every call whose
\* re-check comes within tokenLifetime of the store returns nil without
\* logging in; and every call eventually returns.
C1_SingleLoginInBurst ==
    /\ []((\A p \in Procs : Outstanding(p)) => SumLogins(Procs) <= 1)
    /\ [][\A p \in Procs : logins'[p] > logins[p] => ~Fresh]_vars
    /\ [](\A p \in Procs : Returned(p) /\ logins[p] = 0 => ret[p] = "nil")
    /\ <>(\A p \in Procs : Returned(p))

\* C1 witness: one call's login succeeded, and the other call returned nil
\* without a login of its own.
C1_Witness ==
    \E p, q \in Procs :
        /\ p # q
        /\ Returned(p) /\ logins[p] = 1 /\ ret[p] = "nil"
        /\ Returned(q) /\ logins[q] = 0 /\ ret[q] = "nil"

\* C1 as stated: once the burst's one login has succeeded (the first call
\* to return returned nil), all N calls return nil, so no call still
\* outstanding is handed a login failure.
C1_AllReturnNil ==
    ( /\ \E p \in Procs : Returned(p)
      /\ \A p \in Procs : Returned(p) => ret[p] = "nil" )
    => \A q \in Procs : Outstanding(q) => resp[q] # ErrResp

\* C2 as stated: at most one login round-trip is in flight, whoever
\* started it.
C2_OneRoundTripInFlight ==
    Cardinality({p \in Procs : LoginInFlight(p)}) <= 1

\* C2 (as amended): the logins made through loginIfTokenHasExpired are
\* totally ordered by loginMtx: from the re-check until it returns the
\* caller holds loginMtx, so at most one of them is between sending the
\* request and storing its outcome.  A direct login call takes no
\* loginMtx and may overlap with them.
C2_EnsureFreshLoginsSerialized ==
    /\ \A p \in Procs :
          (op[p] = "EnsureFresh" /\ pc[p] \in {"ef2", "ef2r", "inflight", "store", "storew", "efret"})
              => loginMtx = p
    /\ Cardinality({p \in Procs : op[p] = "EnsureFresh" /\ InLogin(p)}) <= 1

\* C2 witness: one loginIfTokenHasExpired call has its login in flight
\* while another waits for loginMtx.
C2_Witness ==
    \E p, q \in Procs :
        /\ op[p] = "EnsureFresh" /\ LoginInFlight(p)
        /\ pc[q] = "eflock"

\* C3 as stated: in the state in which a loginIfTokenHasExpired call
\* returns nil the cache is fresh.
C3_FreshAtReturn ==
    [][\A p \in Procs :
          (op[p] = "EnsureFresh" /\ Outstanding(p) /\ pc'[p] = "idle" /\ ret'[p] = "nil")
              => Fresh']_vars

\* C3 (as amended): a nil return of loginIfTokenHasExpired rests on a
\* moment at which the cache was fresh: the staleness check that found
\* it fresh (the first check, with which the fast path returns, or the
\* re-check), or the store of the call's own successful login.
C3_FreshWhenDecided ==
    [][\A p \in Procs :
          /\ (pc[p] = "ef1r" /\ pc'[p] = "idle") => (Fresh /\ Fresh' /\ ret'[p] = "nil")
          /\ (pc[p] = "ef2r" /\ pc'[p] = "efret") => Fresh
          /\ (op[p] = "EnsureFresh" /\ pc[p] = "storew" /\ resp[p] = OkResp /\ pc'[p] = "efret")
                 => Fresh'
          /\ (pc[p] = "efret" /\ pc'[p] = "idle" /\ ret'[p] = "nil")
                 => (logins[p] = 0 \/ resp[p] = OkResp)]_vars

\* C3 witness: a call returned nil after its own login, and the cache is
\* fresh.
C3_Witness ==
    \E p \in Procs :
        /\ Returned(p) /\ op[p] = "EnsureFresh"
        /\ ret[p] = "nil" /\ logins[p] = 1 /\ Fresh

\* C4: whenever the token lock is free of a writer, token is non-empty
\* if and only if lastLogin is non-zero.
C4_TokenIffIssuedAt ==
    tokenMtxW = NoProc => ((token # "") <=> (lastLogin # ZeroTime))

\* C5: no deadlock: in every state in which some call is outstanding,
\* some outstanding call can take a step.
C5_NoDeadlock ==
    (\E p \in Procs : Outstanding(p))
        => \E p \in Procs : Outstanding(p) /\ ENABLED Step(p)

\* C5 witness: a call is blocked on loginMtx, which is held by a call whose
\* login is in flight.
C5_Witness ==
    \E p, q \in Procs :
        /\ pc[p] = "eflock" /\ ~ENABLED Step(p)
        /\ loginMtx = q /\ LoginInFlight(q)

\* C6: a login failure, whatever the state before it and whichever call
\* made it, leaves the cache Empty; and while the cache is Empty a token
\* read returns "", the first check of loginIfTokenHasExpired never
\* returns on the fast path and its re-check goes on to a login.
C6_FailureResetsState ==
    [][\A p \in Procs :
          /\ LoginFails(p) => Empty'
          /\ (Empty /\ pc[p] = "rdr" /\ pc'[p] = "idle") => ret'[p] = ""
          /\ (Empty /\ pc[p] = "ef1r" /\ pc'[p] # "ef1r") => pc'[p] = "eflock"
          /\ (Empty /\ pc[p] = "ef2r" /\ pc'[p] # "ef2r")
                 => (LoginInFlight(p)' /\ logins'[p] = 1)]_vars

\* C6 witness: a login has failed, the cache is Empty, and the next
\* loginIfTokenHasExpired call has a login in flight.
C6_Witness ==
    \E p, q \in Procs :
        /\ p # q
        /\ Returned(p) /\ ret[p] = "err" /\ now > StartTime
        /\ Empty
        /\ op[q] = "EnsureFresh" /\ LoginInFlight(q)

\* C7: a loginIfTokenHasExpired call during which the cache is fresh at
\* every moment (it runs within tokenLifetime of a successful login, with
\* no login failure in between) never leaves the fast path: it invokes no
\* login, does not queue for loginMtx, and returns nil.
C7_FastPathInWindow ==
    \A p \in Procs :
        (op[p] = "EnsureFresh" /\ inWindow[p])
            => /\ logins[p] = 0
               /\ pc[p] \in {"ef1", "ef1r", "idle"}
               /\ (pc[p] = "idle" => ret[p] = "nil")

\* C7 witness: such a call has returned nil at the very end of the window,
\* tokenLifetime after the login, while another is on the fast path.
C7_Witness ==
    \E p, q \in Procs :
        /\ p # q
        /\ Returned(p) /\ op[p] = "EnsureFresh" /\ inWindow[p] /\ ret[p] = "nil"
        /\ op[q] = "EnsureFresh" /\ inWindow[q] /\ pc[q] = "ef1r"
        /\ now - lastLogin = tokenLifetime

\* C8 as stated: in every state in which a login round-trip is in
\* flight, a tokenRead call can take the shared token lock.
C8_ReadEnabledDuringRoundTrip ==
    (\E p \in Procs : LoginInFlight(p)) => tokenMtxW = NoProc

\* C8 (as amended): a goroutine whose login round-trip is in flight holds
\* the token lock in no mode, and whoever holds it is at the read or write
\* it took it for, never waiting for the network or for loginMtx; so a
\* tokenRead is kept waiting only while another login's outcome is being
\* stored or cleared, never for the length of a round-trip.
C8_NoTokenLockAcrossRoundTrip ==
    /\ \A p \in Procs :
          LoginInFlight(p) => (tokenMtxW # p /\ p \notin tokenMtxR)
    /\ \A p \in Procs : tokenMtxW = p => (pc[p] = "storew" /\ tokenMtxR = {})
    /\ \A p \in tokenMtxR : pc[p] \in {"ef1r", "ef2r", "rdr"}
    /\ \A p \in Procs :
          (pc[p] = "rd" /\ \E q \in Procs : LoginInFlight(q))
              => \/ ENABLED TokenReadRLock(p)
                 \/ \E w \in Procs : tokenMtxW = w /\ ENABLED TokenWrite(w)

\* C8 witness: a tokenRead holds the shared token lock while a login
\* round-trip is in flight.
C8_Witness ==
    \E p, q \in Procs :
        /\ LoginInFlight(q)
        /\ op[p] = "CurrentToken" /\ pc[p] = "rdr" /\ p \in tokenMtxR

C10_ErrorIffOwnLoginFailed ==
    /\ [](\A p \in Procs : logins[p] <= 1)
    /\ [](\A p \in Procs :
            (op[p] = "EnsureFresh" /\ resp[p] # NoResp) => logins[p] = 1)
    /\ [][\A p \in Procs :
            (op[p] = "EnsureFresh" /\ Outstanding(p) /\ pc'[p] = "idle")
                => (ret'[p] = "err" <=> (logins[p] = 1 /\ resp[p] = ErrResp))]_vars
    /\ [][\A p \in Procs :
            (op[p] = "EnsureFresh" /\ LoginFails(p))
                => (token' = "" /\ lastLogin' = ZeroTime /\ pc'[p] = "efret")]_vars

\* C10 witness: a call's login has failed and the call is about to return
\* the error, the token cleared.
C10_Witness ==
    \E p \in Procs :
        /\ op[p] = "EnsureFresh" /\ pc[p] = "efret" /\ resp[p] = ErrResp
        /\ Empty

\* C11: login called directly performs exactly one round-trip whatever the
\* cache holds, a fresh token included; when the outcome is written the
\* caller holds the token lock exclusively, and in that one step a success
\* leaves (a returned token, the time of the store) and nil, a failure
\* leaves (empty, zero time) and the error.
C11_ForceLoginAlwaysLogsIn ==
    /\ [][\A p \in Procs :
            (pc[p] = "idle" /\ pc'[p] # "idle" /\ op'[p] = "ForceLogin")
                => (pc'[p] = "inflight" /\ logins'[p] = 1)]_vars
    /\ [](\A p \in Procs : op[p] = "ForceLogin" => logins[p] = 1)
    /\ [][\A p \in Procs :
            (op[p] = "ForceLogin" /\ pc[p] = "storew" /\ pc'[p] # "storew")
                => /\ tokenMtxW = p /\ tokenMtxR = {}
                   /\ pc'[p] = "idle"
                   /\ IF resp[p] = ErrResp
                      THEN token' = "" /\ lastLogin' = ZeroTime
                           /\ ret'[p] = "err"
                      ELSE token' \in AccessTokens /\ lastLogin' = now
                           /\ ret'[p] = "nil"]_vars

\* C11 witness: a direct login made while a fresh token is cached has
\* failed and is about to clear that token.
C11_Witness ==
    \E p \in Procs :
        /\ op[p] = "ForceLogin" /\ pc[p] = "storew" /\ resp[p] = ErrResp
        /\ Fresh /\ token # ""

\* C12: tokenRead returns the token field as it stands; the field and
\* lastLogin change only in the step that writes a login's outcome, so the
\* token of the last successful login is returned however much time has
\* passed; a successful login stores its token with lastLogin set to the
\* time of the store, and a failed one clears both.
C12_ReadReturnsLastStored ==
    /\ [][\A p \in Procs :
            (pc[p] = "rdr" /\ pc'[p] = "idle") => ret'[p] = token]_vars
    /\ [][(token' # token \/ lastLogin' # lastLogin)
            => \E q \in Procs :
                  /\ pc[q] = "storew" /\ pc'[q] # "storew"
                  /\ resp[q] = OkResp => lastLogin' = now
                  /\ resp[q] = ErrResp => (token' = "" /\ lastLogin' = ZeroTime)]_vars

\* C12 witness: tokenRead has returned the stored token although it has
\* gone stale.
C12_Witness ==
    \E p \in Procs :
        /\ op[p] = "CurrentToken" /\ Returned(p)
        /\ ret[p] = token /\ token # ""
        /\ lastLogin # ZeroTime /\ now - lastLogin > tokenLifetime

\* C13: under fair scheduling, with every login round-trip ending, a
\* goroutine queuing for loginMtx eventually acquires it and every
\* loginIfTokenHasExpired call eventually returns; a goroutine whose
\* re-check under loginMtx finds the cache fresh sends no request and goes
\* on to return nil.
C13_EveryCallReturns ==
    /\ \A p \in Procs : (pc[p] = "eflock") ~> (loginMtx = p)
    /\ \A p \in Procs :
          (op[p] = "EnsureFresh" /\ Outstanding(p)) ~> Returned(p)
    /\ [][\A p \in Procs :
            (pc[p] = "ef2r" /\ pc'[p] # "ef2r" /\ Fresh)
                => (pc'[p] = "efret" /\ logins'[p] = 0
                    /\ resp'[p] = NoResp /\ loginMtx' = p)]_vars
    /\ \A p \in Procs :
          (pc[p] = "efret" /\ logins[p] = 0)
              ~> (Returned(p) /\ ret[p] = "nil" /\ logins[p] = 0)

\* C13 witness: a waiter has acquired loginMtx after the holder's login
\* succeeded, found the cache fresh at its re-check and is about to return
\* without having sent a request.
C13_Witness ==
    \E p, q \in Procs :
        /\ pc[p] = "efret" /\ logins[p] = 0 /\ loginMtx = p /\ Fresh
        /\ Returned(q) /\ logins[q] = 1 /\ ret[q] = "nil"

\* C14: lock ordering.  A goroutine queuing for loginMtx holds tokenMtx in
\* neither mode, and the step that acquires loginMtx is taken holding
\* tokenMtx in neither mode; tokenMtx is acquired only afterwards, with
\* loginMtx held or by a goroutine that never takes loginMtx in that call.
C14_LockOrder ==
    /\ [](\A p \in Procs :
            pc[p] = "eflock" => (p \notin tokenMtxR /\ tokenMtxW # p))
    /\ [][\A p \in Procs :
            (loginMtx' = p /\ loginMtx # p)
                => /\ p \notin tokenMtxR /\ tokenMtxW # p
                   /\ p \notin tokenMtxR' /\ tokenMtxW' # p]_vars
    /\ [][\A p \in Procs :
            (op[p] = "EnsureFresh" /\ pc[p] # "ef1"
             /\ \/ p \notin tokenMtxR /\ p \in tokenMtxR'
                \/ tokenMtxW # p /\ tokenMtxW' = p)
                => (loginMtx = p /\ loginMtx' = p)]_vars

\* C14 witness: one goroutine holds loginMtx and, inside it, tokenMtx in
\* shared mode, while another queues for loginMtx.
C14_Witness ==
    \E p, q \in Procs :
        /\ p # q
        /\ loginMtx = p /\ p \in tokenMtxR
        /\ pc[q] = "eflock"

\* C15: when the first tokenHasExpired check of loginIfTokenHasExpired is
\* made on a fresh cache, that step returns nil with token, lastLogin,
\* loginMtx and the exclusive side of tokenMtx untouched and no request
\* sent, giving back the shared token lock; up to that check the call held
\* neither loginMtx nor tokenMtx exclusively.
C15_FastPathFrame ==
    /\ [][\A p \in Procs :
            (pc[p] = "ef1r" /\ pc'[p] # "ef1r" /\ Fresh)
                => /\ pc'[p] = "idle" /\ ret'[p] = "nil"
                   /\ token' = token /\ lastLogin' = lastLogin
                   /\ logins'[p] = 0
                   /\ loginMtx' = loginMtx /\ tokenMtxW' = tokenMtxW
                   /\ tokenMtxR' = tokenMtxR \ {p}]_vars
    /\ [](\A p \in Procs :
            pc[p] \in {"ef1", "ef1r"}
                => (loginMtx # p /\ tokenMtxW # p /\ logins[p] = 0))
    /\ [](\A p \in Procs : pc[p] = "ef1r" => p \in tokenMtxR)

\* C15 witness: a call has returned nil on the fast path, the cache fresh
\* throughout, while another goroutine holds loginMtx.
C15_Witness ==
    \E p, q \in Procs :
        /\ op[p] = "EnsureFresh" /\ Returned(p) /\ ret[p] = "nil"
        /\ logins[p] = 0 /\ inWindow[p]
        /\ loginMtx = q /\ q # p

\* C16: both tokenHasExpired checks classify the cache as fresh exactly
\* when lastLogin is set and now - lastLogin <= tokenLifetime: the first
\* check returns on exactly those states and queues for loginMtx on all
\* others (empty or stale), the second skips the login on exactly those
\* states and sends the request on all others.
C16_FreshBoundary ==
    /\ [][\A p \in Procs :
            (pc[p] = "ef1r" /\ pc'[p] # "ef1r")
                => /\ pc'[p] = "idle"
                        <=> (lastLogin # ZeroTime
                             /\ now - lastLogin <= tokenLifetime)
                   /\ pc'[p] = "eflock"
                        <=> (lastLogin = ZeroTime
                             \/ now - lastLogin >= tokenLifetime + 1)]_vars
    /\ [][\A p \in Procs :
            (pc[p] = "ef2r" /\ pc'[p] # "ef2r")
                => /\ pc'[p] = "efret"
                        <=> (lastLogin # ZeroTime
                             /\ now - lastLogin <= tokenLifetime)
                   /\ pc'[p] = "inflight"
                        <=> (lastLogin = ZeroTime
                             \/ now - lastLogin >= tokenLifetime + 1)]_vars

\* C16 witness: the only goroutine that ever ran has taken the slow path
\* with the token it stored itself exactly tokenLifetime + 1 old.
C16_Witness ==
    \E p \in Procs :
        /\ pc[p] = "eflock"
        /\ lastLogin # ZeroTime /\ now - lastLogin = tokenLifetime + 1
        /\ \A q \in Procs \ {p} : op[q] = "none"

\* C17: loginIfTokenHasExpired sends the login request only in the step of
\* its second tokenHasExpired check, made holding loginMtx, and only when
\* the cache is not fresh at that check; loginMtx stays with the caller
\* until the outcome has been stored or cleared, and is given up only by
\* the return that follows.
C17_LoginUnderRefreshLock ==
    /\ [][\A p \in Procs :
            (op'[p] = "EnsureFresh" /\ logins'[p] > logins[p])
                => /\ pc[p] = "ef2r" /\ p \in tokenMtxR
                   /\ loginMtx = p /\ loginMtx' = p
                   /\ ~Fresh]_vars
    /\ [](\A p \in Procs :
            (op[p] = "EnsureFresh" /\ InLogin(p)) => loginMtx = p)
    /\ [][\A p \in Procs :
            (loginMtx = p /\ loginMtx' # p)
                => (pc[p] = "efret" /\ pc'[p] = "idle"
                    /\ loginMtx' = NoProc)]_vars

\* C17 witness: a call's login has succeeded and its token is about to be
\* stored, loginMtx still held.
C17_Witness ==
    \E p \in Procs :
        /\ op[p] = "EnsureFresh" /\ pc[p] = "storew" /\ resp[p] = OkResp
        /\ loginMtx = p /\ tokenMtxW = p

\* C18: with login called directly while loginIfTokenHasExpired calls run,
\* some pending call can always step, and token and lastLogin change only
\* together, in one step taken by the exclusive holder of tokenMtx with no
\* reader inside, to the outcome of that goroutine's own login: (a returned
\* token, now) or (empty, zero time).
C18_PairWrittenWhole ==
    /\ []((/\ \E p \in Procs : op[p] = "ForceLogin" /\ Outstanding(p)
           /\ \E q \in Procs : op[q] = "EnsureFresh" /\ Outstanding(q))
            => \E p \in Procs : Outstanding(p) /\ ENABLED Step(p))
    /\ [](tokenMtxW # NoProc => tokenMtxR = {})
    /\ [](lastLogin = ZeroTime => token = "")
    /\ [][(token' # token \/ lastLogin' # lastLogin)
            => \E p \in Procs :
                  /\ pc[p] = "storew" /\ tokenMtxW = p /\ tokenMtxR = {}
                  /\ \/ resp[p] = ErrResp /\ token' = ""
                        /\ lastLogin' = ZeroTime
                     \/ resp[p] = OkResp /\ token' \in AccessTokens
                        /\ lastLogin' = now]_vars

\* C18 witness: a direct login is writing its outcome while a
\* loginIfTokenHasExpired call waits to write the opposite outcome.
C18_Witness ==
    \E p, q \in Procs :
        /\ op[p] = "ForceLogin" /\ pc[p] = "storew"
        /\ op[q] = "EnsureFresh" /\ pc[q] = "store"
        /\ resp[p] # resp[q]

\* C19: loginMtx is held only by a loginIfTokenHasExpired call between its
\* acquisition and its return, and every return of such a call, whether
\* after a fresh re-check, a successful login or a failed one, leaves
\* loginMtx free.
C19_RefreshLockReleased ==
    /\ [](loginMtx # NoProc
            => /\ op[loginMtx] = "EnsureFresh"
               /\ pc[loginMtx] \in {"ef2", "ef2r", "inflight", "store",
                                    "storew", "efret"})
    /\ [][\A p \in Procs :
            (op[p] = "EnsureFresh" /\ pc[p] \notin {"idle", "ef1", "ef1r"}
             /\ pc'[p] = "idle")
                => (loginMtx = p /\ loginMtx' = NoProc
                    /\ ret'[p] \in {"nil", "err"})]_vars

\* C19 witness: a call whose login failed has returned the error, loginMtx
\* is free and a later caller is queuing for it.
C19_Witness ==
    \E p, q \in Procs :
        /\ op[p] = "EnsureFresh" /\ Returned(p) /\ ret[p] = "err"
        /\ loginMtx = NoProc
        /\ pc[q] = "eflock"

\* minutes since the server issued the token now in the cache
ServerAge == (now - lastLogin) + lag
\* the step in which a tokenHasExpired check of goroutine p answers false
ClassifiedFresh(p) ==
    \/ pc[p] = "ef1r" /\ pc'[p] = "idle"
    \/ pc[p] = "ef2r" /\ pc'[p] = "efret"

\* C20: tokenSet stamps lastLogin with the time of the store, so a token
\* stored lat minutes after the server issued it starts with age zero in
\* the cache although it is lat minutes old; whenever a tokenHasExpired
\* check answers false the token was issued at most tokenLifetime plus
\* that latency ago, which is within serverValidity whenever the latency
\* is at most serverValidity - tokenLifetime.
C20_FreshWithinLifetimePlusLatency ==
    /\ [][\A p \in Procs :
            (pc[p] = "storew" /\ pc'[p] # "storew" /\ resp[p] = OkResp)
                => (lastLogin' = now /\ ServerAge' = lat[p])]_vars
    /\ [][\A p \in Procs :
            ClassifiedFresh(p)
                => /\ ServerAge <= tokenLifetime + lag
                   /\ lag <= serverValidity - tokenLifetime
                        => ServerAge <= serverValidity]_vars

\* C20 witness: with a latency above the margin, a call has returned nil
\* on a cache that was fresh throughout while the token was issued more than
\* serverValidity ago.
C20_Witness ==
    \E p \in Procs :
        /\ op[p] = "EnsureFresh" /\ Returned(p) /\ ret[p] = "nil"
        /\ logins[p] = 0 /\ inWindow[p]
        /\ lag > serverValidity - tokenLifetime
        /\ ServerAge > serverValidity

====
